---------------------------- MODULE Spec2Model ----------------------------
(***************************************************************************)
(* Chat front end of the transit-status assistant: the agent request       *)
(* gateway (useAgentAPI), the application shell that composes it with the  *)
(* chat panel (App, ChatArea), and the graph animation sequencer           *)
(* (MainArea).                                                             *)
(*                                                                         *)
(* JavaScript runs every handler to completion, so one action is one      *)
(* handler: a DOM event handler up to its first unresolved await, or the   *)
(* continuation of an await.  React state setters are applied in the order *)
(* they were queued and every updater of the message log is functional, so *)
(* the log and the flags are modelled by their committed values.           *)
(*                                                                         *)
(* Texts (prompts, responses, log contents) are sequences of tokens: a     *)
(* prompt is a sequence of characters, so that trim() is computed.         *)
(***************************************************************************)
EXTENDS Integers, Sequences, FiniteSets, TLC

(***************************************************************************)
(* Bounds of the model.                                                    *)
(***************************************************************************)
\* Number of send calls (blank or not) in one behaviour.
MaxCalls == 2

\* Number of calls of waitForAnimationAndRun under way at one time.
MaxRuns == 3

(***************************************************************************)
(* Texts.                                                                  *)
(***************************************************************************)
EmptyText == <<>>

\* useAgentAPI.ts:78, the content of the provisional assistant message.
Placeholder == <<"...">>

\* useAgentAPI.ts:121 and ChatArea.tsx:91, part_002:108.
ErrorText == <<"Sorry, I encountered an error.">>

\* response.data.response of POST /agent/prompt: what the server may answer.
Responses == {<<"r1">>, <<"r2">>}

\* What the user may type, and what GET /suggested-prompts may offer: the
\* empty string, a whitespace-only string, and two prompts with text, one of
\* them with leading whitespace.
Prompts == {<<>>, <<" ", " ">>, <<"a">>, <<" ", "b">>}

Whitespace == {" "}

\* String.prototype.trim: strips leading and trailing whitespace.
RECURSIVE TrimLeft(_)
TrimLeft(s) ==
    IF s = <<>> THEN <<>>
    ELSE IF Head(s) \in Whitespace THEN TrimLeft(Tail(s))
    ELSE s

RECURSIVE TrimRight(_)
TrimRight(s) ==
    IF s = <<>> THEN <<>>
    ELSE IF s[Len(s)] \in Whitespace THEN TrimRight(SubSeq(s, 1, Len(s) - 1))
    ELSE s

\* A variant of Trim that keeps the whitespace (used to test C8).
TrimNothing(s) == s

Trim(s) == TrimRight(TrimLeft(s))

\* `!prompt.trim()`: the empty string is the only falsy string.
IsBlankPrompt(prompt) == Trim(prompt) = EmptyText

\* Truthiness of a string (`currentUserMessage && ...`, `!!agentResponse`).
Truthy(text) == text # EmptyText

(***************************************************************************)
(* State.                                                                  *)
(***************************************************************************)
VARIABLES
    messages,            \* App: useState<Message[]>([])
    loading,             \* useAgentAPI: useState(false), one per hook instance
    calls,               \* the calls of sendMessageWithCallback made so far
    content,             \* ChatArea: the input field
    currentUserMessage,  \* App
    agentResponse,       \* App
    isAgentLoading,      \* App
    buttonClicked,       \* App
    aiReplied,           \* App
    animationLock,       \* MainArea: useRef<boolean>(false)
    runs,                \* MainArea: the calls of waitForAnimationAndRun under way
    activeNodes,         \* MainArea: ids of the nodes whose data.active is true
    activeEdges,         \* MainArea: ids of the edges whose data.active is true
    effectDeps           \* MainArea: <<buttonClicked, aiReplied>> of the last run of the effect

appVars == <<content, currentUserMessage, agentResponse, isAgentLoading>>
flagVars == <<buttonClicked, aiReplied>>
mainAreaVars == <<animationLock, runs, activeNodes, activeEdges, effectDeps>>
chatVars == <<messages, loading, calls, appVars, flagVars, mainAreaVars>>

\* The two instances of the hook: ChatArea.tsx:52 and part_002:48.
Gateways == {"chat", "app"}

(***************************************************************************)
(* The message log.  The uuid of a message is left out: it is fresh on     *)
(* every construction and nothing reads it.                                *)
(***************************************************************************)
\* A variant of userMessage with the role of the assistant (used to test
\* C27).
userMessageAsAssistant(prompt) ==
    [role |-> "assistant", content |-> prompt, animate |-> FALSE]

\* Lines 69-74: role is Role.USER.
userMessage(prompt) ==
    [role |-> "user", content |-> prompt, animate |-> FALSE]

loadingMessage ==
    [role |-> "assistant", content |-> Placeholder, animate |-> TRUE]

successMessage(response) ==
    [role |-> "assistant", content |-> response, animate |-> TRUE]

errorMessage ==
    [role |-> "assistant", content |-> ErrorText, animate |-> FALSE]

\* A variant of AppendPair that puts the pair in front of the log (used to
\* test C26).
AppendPairInFront(log, prompt) ==
    <<userMessage(prompt), loadingMessage>> \o log

\* setMessages(prev => [...prev, userMessage, loadingMessage])
AppendPair(log, prompt) ==
    log \o <<userMessage(prompt), loadingMessage>>

\* A variant of ReplaceLast that appends instead (used to test C1).
ReplaceLastAppends(log, msg) == Append(log, msg)

\* A variant of lastIndex that points at the first placeholder of the log
\* (used to test C24).
firstPlaceholderIndex(log) == IF Len(log) >= 2 THEN 2 ELSE Len(log)

\* updated.length - 1, counted from 1: 0 stands for the index -1 of an
\* empty log.
lastIndex(log) == Len(log)

\* updated[updated.length - 1] = msg on a copy of the log.  On an empty log
\* the index is -1, which is a property and no element: the array the
\* updater returns still has length 0.
ReplaceLast(log, msg) ==
    IF lastIndex(log) \in DOMAIN log
    THEN [log EXCEPT ![lastIndex(log)] = msg]
    ELSE log

\* handleApiResponse's updater: {...updated[last], content, animate}.
PatchLast(log, response, isError) ==
    IF lastIndex(log) \in DOMAIN log
    THEN [log EXCEPT ![lastIndex(log)] =
              [@ EXCEPT !.content = response, !.animate = ~isError]]
    ELSE log

(***************************************************************************)
(* Calls of sendMessageWithCallback.  A call keeps what it did, in order,  *)
(* in `events`; `lenBefore` is the length of the log when it was made,     *)
(* `alone` says that no other send with text and no clear ran during it,   *)
(* and `rewrote` is the index its rewrite of the last entry wrote to.      *)
(***************************************************************************)
Ev(name) == [ev |-> name, text |-> EmptyText, flag |-> FALSE]
EvMsg(name, msg) == [ev |-> name, text |-> msg.content, flag |-> msg.animate]
EvText(name, text) == [ev |-> name, text |-> text, flag |-> FALSE]

\* Callbacks that return.
NoThrow == [onStart |-> FALSE, onSuccess |-> FALSE, onError |-> FALSE]

\* Which callbacks of a caller throw.  After a throw of onStart no other
\* callback is called, so those choices are taken once.
ThrowChoices ==
    {t \in [onStart : BOOLEAN, onSuccess : BOOLEAN, onError : BOOLEAN] :
        t.onStart => (~t.onSuccess /\ ~t.onError)}

InFlight == {c \in DOMAIN calls : calls[c].st = "inflight"}

InFlightOf(gw) == {c \in InFlight : calls[c].gw = gw}

Disturb(cs) ==
    [c \in DOMAIN cs |->
        IF cs[c].st = "inflight" THEN [cs[c] EXCEPT !.alone = FALSE] ELSE cs[c]]

NewCall(gw, by, prompt, throws) ==
    [st |-> "inflight", gw |-> gw, by |-> by, prompt |-> prompt,
     throws |-> throws, lenBefore |-> Len(messages), alone |-> TRUE,
     events |-> <<>>, response |-> EmptyText, rewrote |-> 0]


(***************************************************************************)
(* sendMessageWithCallback, useAgentAPI.ts:58-134.                         *)
(***************************************************************************)
SetLoadingEv(value) == [ev |-> "setLoading", text |-> EmptyText, flag |-> value]

\* A variant of PrefixEvents that posts before anything else (used to test
\* C9).
PrefixEventsPostFirst(prompt) ==
    <<Ev("post"), EvText("append", prompt), SetLoadingEv(TRUE), Ev("onStart")>>

\* Lines 83-100 in statement order: the pair is queued for the log, the busy
\* flag is raised, onStart is called, and inside the try the request is
\* posted.
PrefixEvents(prompt) ==
    <<EvText("append", prompt), SetLoadingEv(TRUE), Ev("onStart"), Ev("post")>>

\* Lines 83-92 when onStart throws: the call ends before the try block.
ThrownStartEvents(prompt) ==
    <<EvText("append", prompt), SetLoadingEv(TRUE), Ev("onStart")>>

\* Lines 102-115.
SuccessEvents(response) ==
    <<EvMsg("rewrite", successMessage(response)), EvText("onSuccess", response)>>

\* Lines 116-130.
CatchEvents ==
    <<EvMsg("rewrite", errorMessage), Ev("onError")>>

\* Lines 131-133.
FinallyEvents == <<SetLoadingEv(FALSE)>>

\* The value of the busy flag after the events of a call, from its value
\* before: the last setLoading wins.
RECURSIVE LoadingAfter(_, _)
LoadingAfter(before, events) ==
    IF events = <<>> THEN before
    ELSE LET e == events[Len(events)]
         IN IF e.ev = "setLoading" THEN e.flag
            ELSE LoadingAfter(before, SubSeq(events, 1, Len(events) - 1))

\* What the continuation of the awaited request does, as events: the try
\* block after a response, the catch block after a rejection or after a
\* throw of onSuccess, and the finally block.
SettleEvents(call, ok, response) ==
    (IF ok THEN SuccessEvents(response) ELSE <<>>)
    \o (IF ~ok \/ call.throws.onSuccess THEN CatchEvents ELSE <<>>)
    \o FinallyEvents

\* How the promise of the call ends: it rejects when onError throws out of
\* the catch block.
SettleState(call, ok) ==
    IF (~ok \/ call.throws.onSuccess) /\ call.throws.onError
    THEN "rejected" ELSE "resolved"

\* What one event of a call does to the log.  The callbacks of the
\* application (ChatArea.tsx:80-93, part_002:100-109) call
\* handleApiResponse, which patches the last entry once more; the callbacks
\* of an outside caller leave the log alone.
ApplyToLog(log, e, by) ==
    CASE e.ev = "append" -> AppendPair(log, e.text)
      [] e.ev = "rewrite" ->
            ReplaceLast(log, [role |-> "assistant", content |-> e.text,
                              animate |-> e.flag])
      [] e.ev = "onSuccess" ->
            IF by = "ext" THEN log ELSE PatchLast(log, e.text, FALSE)
      [] e.ev = "onError" ->
            IF by = "ext" THEN log ELSE PatchLast(log, ErrorText, TRUE)
      [] OTHER -> log

\* The log after the events of a call, applied in their order.
RECURSIVE LogAfter(_, _, _)
LogAfter(log, events, by) ==
    IF events = <<>> THEN log
    ELSE LogAfter(ApplyToLog(log, Head(events), by), Tail(events), by)

(***************************************************************************)
(* The synchronous part of a call: from the entry of the function to the   *)
(* first await that does not resolve at once.                              *)
(*   net = "pending": axios.post returns a promise that settles later;     *)
(*   net = "throws" : axios.post throws synchronously inside the try.      *)
(***************************************************************************)
StartEvents(prompt, throws, net) ==
    IF IsBlankPrompt(prompt) THEN <<>>
    ELSE IF throws.onStart THEN ThrownStartEvents(prompt)
    ELSE IF net = "throws" THEN PrefixEvents(prompt) \o CatchEvents \o FinallyEvents
    ELSE PrefixEvents(prompt)

StartState(prompt, throws, net) ==
    IF IsBlankPrompt(prompt) THEN "returned"
    ELSE IF throws.onStart THEN "rejected"
    ELSE IF net = "throws"
         THEN (IF throws.onError THEN "rejected" ELSE "resolved")
    ELSE "inflight"

\* The call as it stands when the synchronous part has run.
StartedCall(gw, by, prompt, throws, net) ==
    [NewCall(gw, by, prompt, throws) EXCEPT
        !.st = StartState(prompt, throws, net),
        !.events = StartEvents(prompt, throws, net),
        !.rewrote = IF ~IsBlankPrompt(prompt) /\ ~throws.onStart /\ net = "throws"
                    THEN lastIndex(AppendPair(messages, prompt)) ELSE 0]

\* The calls after a new one was made: a send with text disturbs the calls
\* in flight.
CallsAfterSend(gw, by, prompt, throws, net) ==
    Append(IF IsBlankPrompt(prompt) THEN calls ELSE Disturb(calls),
           StartedCall(gw, by, prompt, throws, net))

\* The calls after the continuation of call c ran.
CallsAfterSettle(c, ok, response) ==
    [calls EXCEPT ![c] =
        [@ EXCEPT !.st = SettleState(calls[c], ok),
                  !.events = @ \o SettleEvents(calls[c], ok, response),
                  !.response = IF ok THEN response ELSE EmptyText,
                  !.rewrote = lastIndex(messages)]]

(***************************************************************************)
(* useChatAreaMeasurement, useThemeIcon.ts:53-119: the height of the chat  *)
(* panel, reported after a debounce.                                       *)
(***************************************************************************)
VARIABLES
    elementHeight,       \* the height of the observed element
    height,              \* useState(0)
    isExpanded,          \* useState(false)
    timers,              \* the timeouts of window.setTimeout that are pending
    nextTimerId,         \* the id window.setTimeout returns next
    debounceTimeoutRef,  \* useRef<number | null>(null), 0 for null
    resizeObserverRef,   \* the observer of the last run of the effect
    measurePhase,        \* where the effect of lines 88-112 stands
    onHeightChangeCalls, \* how often options.onHeightChange was called
    burst                \* the calls of debouncedHeightUpdate since a timeout ran

measureVars == <<elementHeight, height, isExpanded, timers, nextTimerId,
                 debounceTimeoutRef, resizeObserverRef, measurePhase,
                 onHeightChangeCalls, burst>>

\* The chat log in durable storage and the start of the application.
VARIABLES
    localStorage,        \* the item under LOCAL_STORAGE_KEY
    storedAtStart,       \* the item as it was before the application started
    updateQueue,         \* the setMessages calls React has not rendered yet
    bootPc               \* where the mount effects of App stand

storeVars == <<localStorage, storedAtStart, updateQueue, bootPc>>

\* The viewport and the props of MainArea that the fit of the graph reads.
VARIABLES
    innerHeight,         \* window.innerHeight
    innerWidth,          \* window.innerWidth
    fitProps,            \* MainArea: the props chatHeight and isExpanded
    fitViewArgs          \* the options of the last call of fitView

fitVars == <<innerHeight, innerWidth, fitProps, fitViewArgs>>

\* The calls of window.setTimeout a behaviour makes.
MaxTimers == 5

\* Line 72: the panel counts as expanded above this height.
ExpandedThreshold == 76

\* The heights the element takes.
Heights == {0, 76, 77, 150}

nowExpanded(newHeight) == newHeight > ExpandedThreshold

\* An observer that was never created (useRef(null)), and one that
\* disconnect() has silenced.
NoObserver == [connected |-> FALSE, queued |-> FALSE, height |-> 0, isExpanded |-> FALSE]

disconnect(observer) == [observer EXCEPT !.connected = FALSE, !.queued = FALSE]

\* A variant of clearTimeout that cancels nothing.
ClearTimeoutLost(pending, id) == pending

\* window.clearTimeout(id): the timeout with this id is no longer pending.
\* The id of a timeout that has run, and 0, cancel nothing.
clearTimeout(pending, id) == {t \in pending : t.id # id}

\* A variant of NewTimer whose callback keeps the height and isExpanded of
\* the first render.
NewTimerFirstRender(newHeight, closure) ==
    [id |-> nextTimerId, newHeight |-> newHeight, height |-> 0, isExpanded |-> FALSE]

\* Lines 70-83: the timeout that window.setTimeout arms.  Its callback
\* closes over newHeight and over height and isExpanded of the render that
\* made this debouncedHeightUpdate.
NewTimer(newHeight, closure) ==
    [id |-> nextTimerId, newHeight |-> newHeight,
     height |-> closure.height, isExpanded |-> closure.isExpanded]

\* Lines 64-86: the timeouts pending after debouncedHeightUpdate(newHeight),
\* starting from the timeouts in `pending`.
debouncedHeightUpdate(pending, newHeight, closure) ==
    clearTimeout(pending, debounceTimeoutRef) \cup {NewTimer(newHeight, closure)}

\* The record of a burst after one more call of debouncedHeightUpdate: a
\* call after a timeout ran starts a new burst.
BurstAfterCall(newHeight) ==
    IF burst.updates > 0
    THEN [events |-> 1, last |-> newHeight, updates |-> 0]
    ELSE [events |-> burst.events + 1, last |-> newHeight, updates |-> 0]

MeasureInit ==
    /\ elementHeight = 0
    /\ height = 0
    /\ isExpanded = FALSE
    /\ timers = {}
    /\ nextTimerId = 1
    /\ debounceTimeoutRef = 0
    /\ resizeObserverRef = NoObserver
    /\ measurePhase = "mounting"
    /\ onHeightChangeCalls = 0
    /\ burst = [events |-> 0, last |-> 0, updates |-> 0]

\* The cleanup of lines 104-111.
CleanupObserver == disconnect(resizeObserverRef)

\* A variant of CleanupTimers that leaves the timeout pending.
CleanupTimersSkipped == timers

CleanupTimers == clearTimeout(timers, debounceTimeoutRef)

\* Lines 88-112: the effect runs after the first render and after every
\* render that changed debouncedHeightUpdate, its cleanup first.  The new
\* observer reports the size of the element once after observe().
MeasureEffect ==
    /\ measurePhase \in {"mounting", "stale"}
    /\ nextTimerId <= MaxTimers
    /\ resizeObserverRef' = [connected |-> TRUE, queued |-> TRUE,
                             height |-> height, isExpanded |-> isExpanded]
    /\ timers' = debouncedHeightUpdate(
                    IF measurePhase = "stale" THEN CleanupTimers ELSE timers,
                    elementHeight, [height |-> height, isExpanded |-> isExpanded])
    /\ debounceTimeoutRef' = nextTimerId
    /\ nextTimerId' = nextTimerId + 1
    /\ burst' = BurstAfterCall(elementHeight)
    /\ measurePhase' = "live"
    /\ UNCHANGED <<elementHeight, height, isExpanded, onHeightChangeCalls>>
    /\ UNCHANGED <<chatVars, storeVars, fitVars>>

\* The element is resized; a connected observer will report it.
Resize(h) ==
    /\ h # elementHeight
    /\ elementHeight' = h
    /\ resizeObserverRef' =
          IF resizeObserverRef.connected
          THEN [resizeObserverRef EXCEPT !.queued = TRUE] ELSE resizeObserverRef
    /\ UNCHANGED <<height, isExpanded, timers, nextTimerId, debounceTimeoutRef,
                   measurePhase, onHeightChangeCalls, burst>>
    /\ UNCHANGED <<chatVars, storeVars, fitVars>>

\* Lines 92-97: the callback of the observer, with the debouncedHeightUpdate
\* of the run of the effect that created the observer.
ObserverCallback ==
    /\ resizeObserverRef.connected
    /\ resizeObserverRef.queued
    /\ nextTimerId <= MaxTimers
    /\ resizeObserverRef' = [resizeObserverRef EXCEPT !.queued = FALSE]
    /\ timers' = debouncedHeightUpdate(timers, elementHeight, resizeObserverRef)
    /\ debounceTimeoutRef' = nextTimerId
    /\ nextTimerId' = nextTimerId + 1
    /\ burst' = BurstAfterCall(elementHeight)
    /\ UNCHANGED <<elementHeight, height, isExpanded, measurePhase,
                   onHeightChangeCalls>>
    /\ UNCHANGED <<chatVars, storeVars, fitVars>>

\* Lines 70-83: a timeout expires.  React runs the effects of a commit
\* before a timeout armed after the commit can expire, and drops the state
\* updates of an unmounted component.
TimerFires(t) ==
    /\ t \in timers
    /\ measurePhase # "stale"
    /\ timers' = timers \ {t}
    /\ height' = (IF measurePhase = "torn" THEN height ELSE t.newHeight)
    /\ isExpanded' = (IF measurePhase = "torn" THEN isExpanded
                      ELSE nowExpanded(t.newHeight))
    /\ onHeightChangeCalls' =
          IF t.newHeight # t.height \/ t.isExpanded # nowExpanded(t.newHeight)
          THEN onHeightChangeCalls + 1 ELSE onHeightChangeCalls
    /\ measurePhase' =
          IF measurePhase = "live" /\ <<height', isExpanded'>> # <<height, isExpanded>>
          THEN "stale" ELSE measurePhase
    /\ burst' = [burst EXCEPT !.updates = @ + 1]
    /\ UNCHANGED <<elementHeight, nextTimerId, debounceTimeoutRef, resizeObserverRef>>
    /\ UNCHANGED <<chatVars, storeVars, fitVars>>

\* The consumer renders with another onHeightChange: debouncedHeightUpdate
\* is made anew (line 85) and the effect is due again.
NewCallback ==
    /\ measurePhase = "live"
    /\ measurePhase' = "stale"
    /\ UNCHANGED <<elementHeight, height, isExpanded, timers, nextTimerId,
                   debounceTimeoutRef, resizeObserverRef, onHeightChangeCalls, burst>>
    /\ UNCHANGED <<chatVars, storeVars, fitVars>>

\* The consumer unmounts: the cleanup of the last run of the effect.
Teardown ==
    /\ measurePhase \in {"live", "stale"}
    /\ measurePhase' = "torn"
    /\ resizeObserverRef' = CleanupObserver
    /\ timers' = CleanupTimers
    /\ UNCHANGED <<elementHeight, height, isExpanded, nextTimerId,
                   debounceTimeoutRef, onHeightChangeCalls, burst>>
    /\ UNCHANGED <<chatVars, storeVars, fitVars>>

(***************************************************************************)
(* The chat log in durable storage (part_002:58-67) and the start of the   *)
(* application (part_001:14-18).                                           *)
(***************************************************************************)
\* localStorage.getItem returns null: no item under the key.
NoItem == [json |-> "null", entries |-> <<>>]

\* JSON.stringify(messages): the text of an array of objects, each with the
\* role, the content and the animate flag of a message.
stringify(log) ==
    [json |-> "array",
     entries |-> [i \in DOMAIN log |-> <<log[i].role, log[i].content, log[i].animate>>]]

\* JSON.parse of such a text.
parse(item) ==
    [i \in DOMAIN item.entries |->
        [role |-> item.entries[i][1], content |-> item.entries[i][2],
         animate |-> item.entries[i][3]]]

\* Line 60: if (storedMessages).  A JSON text is never the empty string.
TruthyItem(item) == item # NoItem

\* The longest log found in storage at the start.
MaxStored == 2

\* The logs found in storage at the start.
StoredEntries == {userMessage(<<"a">>), successMessage(<<"r1">>), errorMessage, loadingMessage}

StoredLogs == UNION {[1..n -> StoredEntries] : n \in 0..MaxStored}

\* The state of storage when the application has long started.
StoreInit ==
    /\ localStorage = NoItem
    /\ storedAtStart = NoItem
    /\ updateQueue = <<>>
    /\ bootPc = "quiescent"

\* The state of storage when the application starts.
BootStoreInit ==
    /\ localStorage \in {NoItem} \cup {stringify(L) : L \in StoredLogs}
    /\ storedAtStart = localStorage
    /\ updateQueue = <<>>
    /\ bootPc = "load"

\* part_002:58-63: the load effect.
QueueAfterLoad(item) ==
    IF TruthyItem(item) THEN Append(updateQueue, parse(item)) ELSE updateQueue

LoadEffect ==
    /\ bootPc \in {"load", "reload"}
    /\ updateQueue' = QueueAfterLoad(localStorage)
    /\ bootPc' = (IF bootPc = "load" THEN "persist" ELSE "repersist")
    /\ UNCHANGED <<localStorage, storedAtStart, chatVars, measureVars, fitVars>>

\* part_002:65-67: the persist effect, with the messages of the render it
\* belongs to.
PersistEffect ==
    /\ bootPc \in {"persist", "repersist", "persistAgain"}
    /\ localStorage' = stringify(messages)
    /\ bootPc' = (IF bootPc = "persist" THEN "mounted" ELSE "render")
    /\ UNCHANGED <<storedAtStart, updateQueue, chatVars, measureVars, fitVars>>

\* part_001:14-18: in a development build StrictMode runs the mount
\* effects of App a second time, before React renders the queued updates.
StrictModeReplay ==
    /\ bootPc = "mounted"
    /\ bootPc' = "reload"
    /\ UNCHANGED <<localStorage, storedAtStart, updateQueue, chatVars, measureVars, fitVars>>

\* In a production build StrictMode replays nothing.
ProductionBuild ==
    /\ bootPc = "mounted"
    /\ bootPc' = "render"
    /\ UNCHANGED <<localStorage, storedAtStart, updateQueue, chatVars, measureVars, fitVars>>

\* React renders the queued updates: the last setMessages wins, and the
\* persist effect is due since messages is another array.
RenderQueued ==
    /\ bootPc = "render"
    /\ updateQueue # <<>>
    /\ messages' = updateQueue[Len(updateQueue)]
    /\ updateQueue' = <<>>
    /\ bootPc' = "persistAgain"
    /\ UNCHANGED <<localStorage, storedAtStart, loading, calls, appVars, flagVars,
                   mainAreaVars, measureVars, fitVars>>

\* Nothing is queued: the start is over.
BootDone ==
    /\ bootPc = "render"
    /\ updateQueue = <<>>
    /\ bootPc' = "quiescent"
    /\ UNCHANGED <<localStorage, storedAtStart, updateQueue, chatVars, measureVars, fitVars>>

(***************************************************************************)
(* useViewportAwareFitView.ts:14-56.  A number that is not an integer is   *)
(* a fraction <<numerator, denominator>> with a positive denominator.      *)
(***************************************************************************)
Frac(n, d) == <<n, d>>

LessFrac(a, b) == a[1] * b[2] < b[1] * a[2]

EqFrac(a, b) == a[1] * b[2] = b[1] * a[2]

\* Math.max and Math.min of two numbers.
MathMax(a, b) == IF LessFrac(a, b) THEN b ELSE a

MathMin(a, b) == IF LessFrac(b, a) THEN b ELSE a

\* A variant of availableHeight without the margin of 40.
availableHeightNoMargin(viewportHeight, chatHeight) == viewportHeight - chatHeight

\* Line 22.
availableHeight(viewportHeight, chatHeight) == viewportHeight - chatHeight - 40

\* Line 23.
availableWidth(viewportWidth) == viewportWidth - 320

\* A variant of padding with the tiers in the opposite order.
paddingInverted(aH, aW) ==
    IF aH < 400 \/ aW < 600 THEN Frac(35, 100)
    ELSE IF aH < 600 \/ aW < 800 THEN Frac(25, 100)
    ELSE Frac(15, 100)

\* Lines 25-32.
padding(aH, aW) ==
    IF aH < 400 \/ aW < 600 THEN Frac(15, 100)
    ELSE IF aH < 600 \/ aW < 800 THEN Frac(25, 100)
    ELSE Frac(35, 100)

\* Lines 34-43.
minZoom(aH, expanded) ==
    IF expanded THEN MathMax(Frac(4, 10), Frac(aH, 1200)) ELSE Frac(6, 10)

maxZoom(aW, expanded) ==
    IF expanded THEN MathMin(Frac(18, 10), Frac(aW, 600)) ELSE Frac(18, 10)

\* Lines 18-51: the options fitView is called with.
fitViewWithViewportLogic(viewportHeight, viewportWidth, props) ==
    LET aH == availableHeight(viewportHeight, props.chatHeight)
        aW == availableWidth(viewportWidth)
    IN [padding |-> padding(aH, aW), duration |-> 300,
        minZoom |-> minZoom(aH, props.isExpanded),
        maxZoom |-> maxZoom(aW, props.isExpanded)]

\* fitView was not called since the viewport or the props changed.
NoFit == [padding |-> Frac(0, 1), duration |-> 0,
          minZoom |-> Frac(0, 1), maxZoom |-> Frac(0, 1)]

\* The sizes of the window and of the chat panel that are tried.
WindowHeights == {100, 439, 440, 519, 520, 521, 639, 640, 966, 1000}

WindowWidths == {300, 919, 920, 1119, 1120, 1399, 1400, 1401, 2000}

ChatHeights == {0, 76, 450}

FitProps == [chatHeight : ChatHeights, isExpanded : BOOLEAN]

\* MainArea.tsx:65-66: the defaults of the props.
FitIdle ==
    /\ innerHeight = 1000
    /\ innerWidth = 1400
    /\ fitProps = [chatHeight |-> 0, isExpanded |-> FALSE]
    /\ fitViewArgs = NoFit

FitAnyInput ==
    /\ innerHeight \in WindowHeights
    /\ innerWidth \in WindowWidths
    /\ fitProps \in FitProps
    /\ fitViewArgs = NoFit

\* The window is resized.
WindowResize(h, w) ==
    /\ <<h, w>> # <<innerHeight, innerWidth>>
    /\ innerHeight' = h
    /\ innerWidth' = w
    /\ fitViewArgs' = NoFit
    /\ UNCHANGED <<fitProps, chatVars, measureVars, storeVars>>

\* The nodes and edges of the configured graph (utils/const.ts:42-100) carry
\* no data.active: after setNodes(newConfig.nodes) and
\* setEdges(newConfig.edges) no id is active.
ConfiguredActive == {}

\* MainArea is rendered with another chatHeight or isExpanded, and the
\* effect of MainArea.tsx:78-91, which has both among its dependencies,
\* runs again: updateA2ALabels rewrites the label of edge "1-2" and keeps
\* its data.active, then setNodes and setEdges put the configured graph
\* back.  The fits of lines 85-90 and 93-99 are the action FitView.
PropsChange(props) ==
    /\ props # fitProps
    /\ fitProps' = props
    /\ activeNodes' = ConfiguredActive
    /\ activeEdges' = ConfiguredActive
    /\ fitViewArgs' = NoFit
    /\ UNCHANGED <<innerHeight, innerWidth, messages, loading, calls, appVars,
                   flagVars, animationLock, runs, effectDeps, measureVars,
                   storeVars>>

\* MainArea.tsx:93-99 (and 85-90): fitViewWithViewport({chatHeight,
\* isExpanded}).
FitView ==
    /\ fitViewArgs' = fitViewWithViewportLogic(innerHeight, innerWidth, fitProps)
    /\ fitViewArgs' # fitViewArgs
    /\ UNCHANGED <<innerHeight, innerWidth, fitProps, chatVars, measureVars, storeVars>>

restVars == <<measureVars, storeVars, fitVars>>

vars == <<messages, loading, calls, content, currentUserMessage, agentResponse,
          isAgentLoading, buttonClicked, aiReplied, animationLock, runs,
          activeNodes, activeEdges, effectDeps, restVars>>

(***************************************************************************)
(* The hook on its own: one instance, an owner of the log who may clear    *)
(* it, and callers whose callbacks may throw.                              *)
(***************************************************************************)
HookGw == "chat"

HookSend(prompt, throws, net) ==
    /\ Len(calls) < MaxCalls
    /\ messages' = LogAfter(messages, StartEvents(prompt, throws, net), "ext")
    /\ loading' = [loading EXCEPT ![HookGw] =
                      LoadingAfter(@, StartEvents(prompt, throws, net))]
    /\ calls' = CallsAfterSend(HookGw, "ext", prompt, throws, net)
    /\ UNCHANGED <<appVars, flagVars, mainAreaVars, restVars>>

HookSettle(c, ok, response) ==
    /\ c \in InFlight
    /\ messages' = LogAfter(messages, SettleEvents(calls[c], ok, response), calls[c].by)
    /\ loading' = [loading EXCEPT ![calls[c].gw] =
                      LoadingAfter(@, SettleEvents(calls[c], ok, response))]
    /\ calls' = CallsAfterSettle(c, ok, response)
    /\ UNCHANGED <<appVars, flagVars, mainAreaVars, restVars>>

HookResolve == \E c \in InFlight, r \in Responses : HookSettle(c, TRUE, r)

HookReject == \E c \in InFlight : HookSettle(c, FALSE, EmptyText)

\* The owner of the log empties it: setMessages([]).
OwnerClear ==
    /\ messages # <<>>
    /\ messages' = <<>>
    /\ calls' = Disturb(calls)
    /\ UNCHANGED <<loading, appVars, flagVars, mainAreaVars, restVars>>

(***************************************************************************)
(* The graph of MainArea (const.ts:42-100) and the calls of                *)
(* waitForAnimationAndRun.                                                 *)
(***************************************************************************)
NodeIds == {"1", "2"}

EdgeIds == {"1-2"}

\* const.ts:99: [{ ids: ["1"] }, { ids: ["1-2"] }, { ids: ["2"] }]
animationSequence == << <<"1">>, <<"1-2">>, <<"2">> >>

Range(seq) == {seq[i] : i \in DOMAIN seq}

RunSlots == 1..MaxRuns

\* A slot with no call in it.
IdleRun == [pc |-> "idle", aiReplied |-> FALSE, step |-> 0,
            waited |-> FALSE, repliedAtLock |-> FALSE]

ChatInit ==
    /\ animationLock = FALSE
    /\ runs = [r \in RunSlots |-> IdleRun]
    /\ activeNodes = {}
    /\ activeEdges = {}
    /\ effectDeps = <<FALSE, FALSE>>
    /\ messages = <<>>
    /\ loading = [g \in Gateways |-> FALSE]
    /\ calls = <<>>
    /\ content = EmptyText
    /\ currentUserMessage = EmptyText
    /\ agentResponse = EmptyText
    /\ isAgentLoading = FALSE
    /\ buttonClicked = FALSE
    /\ aiReplied = FALSE

Init == ChatInit /\ MeasureInit /\ StoreInit /\ FitIdle

\* The state in which the application starts.
BootInit == ChatInit /\ MeasureInit /\ BootStoreInit /\ FitIdle

\* The fit of the graph with any viewport and any props.
FitInit == ChatInit /\ MeasureInit /\ StoreInit /\ FitAnyInput

HookNext ==
    \/ \E p \in Prompts, t \in ThrowChoices, n \in {"pending", "throws"} :
          HookSend(p, t, n)
    \/ HookResolve
    \/ HookReject
    \/ OwnerClear

SpecHook == Init /\ [][HookNext]_vars

(***************************************************************************)
(* The application: App (part_002:41-173) and ChatArea.                    *)
(***************************************************************************)
\* The input field and the send button are disabled={loading}, with the
\* busy flag of ChatArea's own instance of the hook (ChatArea.tsx:52).
InputEnabled == ~loading["chat"]

\* onChange of the input field: setContent(e.target.value).
handleChange(text) ==
    /\ InputEnabled
    /\ content' = text
    /\ UNCHANGED <<messages, loading, calls, currentUserMessage, agentResponse,
                   isAgentLoading, flagVars, mainAreaVars, restVars>>

\* ChatArea.tsx:97-107 with the callbacks of lines 76-93.  onUserInput is
\* App's handleUserInput (part_002:86-89); onStart empties the input field
\* and raises buttonClicked; after a blank prompt line 106 empties the
\* input field.
processMessage ==
    /\ Len(calls) < MaxCalls
    /\ currentUserMessage' = content
    /\ isAgentLoading' = TRUE
    /\ messages' = LogAfter(messages, StartEvents(content, NoThrow, "pending"), "typed")
    /\ loading' = [loading EXCEPT !["chat"] =
                      LoadingAfter(@, StartEvents(content, NoThrow, "pending"))]
    /\ calls' = CallsAfterSend("chat", "typed", content, NoThrow, "pending")
    /\ content' = EmptyText
    /\ buttonClicked' = (IF IsBlankPrompt(content) THEN buttonClicked ELSE TRUE)
    /\ UNCHANGED <<agentResponse, aiReplied, mainAreaVars, restVars>>

\* ChatArea.tsx:109-114: Enter in the input field.
handleKeyDown ==
    /\ InputEnabled
    /\ processMessage

\* ChatArea.tsx:226-230: the send button.
onClick ==
    /\ ~IsBlankPrompt(content)
    /\ InputEnabled
    /\ processMessage

\* part_002:91-117, reached from the dropdown (CoffeeGraderDropdown.tsx:88-91,
\* ChatArea.tsx:62-70) with one of the suggested prompts.
handleDropdownSelect(query) ==
    /\ Len(calls) < MaxCalls
    /\ currentUserMessage' = query
    /\ isAgentLoading' = TRUE
    /\ messages' = LogAfter(messages, StartEvents(query, NoThrow, "pending"), "dropdown")
    /\ loading' = [loading EXCEPT !["app"] =
                      LoadingAfter(@, StartEvents(query, NoThrow, "pending"))]
    /\ calls' = CallsAfterSend("app", "dropdown", query, NoThrow, "pending")
    /\ buttonClicked' = (IF IsBlankPrompt(query) THEN buttonClicked ELSE TRUE)
    /\ UNCHANGED <<content, agentResponse, aiReplied, mainAreaVars, restVars>>

\* The continuation of a request of the application: the hook's rewrite,
\* then onSuccess (setAiReplied(true), handleApiResponse(response, false))
\* or onError (handleApiResponse(ErrorText, true)), the finally block, and
\* for a typed prompt line 106 of ChatArea.tsx.
AppSettle(c, ok, response) ==
    /\ c \in InFlight
    /\ messages' = LogAfter(messages, SettleEvents(calls[c], ok, response), calls[c].by)
    /\ loading' = [loading EXCEPT ![calls[c].gw] =
                      LoadingAfter(@, SettleEvents(calls[c], ok, response))]
    /\ calls' = CallsAfterSettle(c, ok, response)
    /\ agentResponse' = (IF ok THEN response ELSE ErrorText)
    /\ isAgentLoading' = FALSE
    /\ aiReplied' = (IF ok THEN TRUE ELSE aiReplied)
    /\ content' = (IF calls[c].by = "typed" THEN EmptyText ELSE content)
    /\ UNCHANGED <<currentUserMessage, buttonClicked, mainAreaVars, restVars>>

AppResolve == \E c \in InFlight, r \in Responses : AppSettle(c, TRUE, r)

AppReject == \E c \in InFlight : AppSettle(c, FALSE, EmptyText)

\* ChatArea.tsx:126-132 and part_004:23-25: the header with the clear
\* button is rendered when there is a current user message and an answer
\* and the panel is not loading.
showActions ==
    /\ Truthy(currentUserMessage)
    /\ Truthy(agentResponse)
    /\ ~isAgentLoading

\* part_002:119-126.
handleClearConversation ==
    /\ showActions
    /\ messages' = <<>>
    /\ currentUserMessage' = EmptyText
    /\ agentResponse' = EmptyText
    /\ isAgentLoading' = FALSE
    /\ buttonClicked' = FALSE
    /\ aiReplied' = FALSE
    /\ calls' = Disturb(calls)
    /\ UNCHANGED <<loading, content, mainAreaVars, restVars>>

AppNext ==
    \/ \E text \in Prompts : handleChange(text)
    \/ handleKeyDown
    \/ onClick
    \/ \E query \in Prompts : handleDropdownSelect(query)
    \/ AppResolve
    \/ AppReject
    \/ handleClearConversation

SpecApp == Init /\ [][AppNext]_vars

(***************************************************************************)
(* The animation sequencer, MainArea.tsx:126-186.                          *)
(*                                                                         *)
(* The effect of lines 145-186 runs after a render in which buttonClicked  *)
(* or aiReplied differs from the render before (the other dependencies     *)
(* never change).  Each run of the effect that finds a flag raised calls   *)
(* waitForAnimationAndRun, an async function that closes over the          *)
(* aiReplied of its render.  A call is at one of:                          *)
(*   "poll": in `await delay(100)` of the while loop of line 149;          *)
(*   "on"  : in the delay of animate(step.ids, HIGHLIGHT.ON), line 164;    *)
(*   "off" : in the delay of animate(step.ids, HIGHLIGHT.OFF), line 165.   *)
(* `waited` and `repliedAtLock` record whether the call polled, and the    *)
(* value the state aiReplied had when the call took the lock.              *)
(***************************************************************************)
Sweeping == {r \in RunSlots : runs[r].pc \in {"on", "off"}}

Polling == {r \in RunSlots : runs[r].pc = "poll"}

FreeSlots == {r \in RunSlots : runs[r].pc = "idle"}

Min(S) == CHOOSE x \in S : \A y \in S : x <= y

\* A variant of updateStyle that never switches an id off (used to test
\* C19).
updateStyleNeverOff(ids, active, current, universe) ==
    current \cup (Range(ids) \cap universe)

\* updateStyle (lines 129-143) for every id of a step: the nodes and the
\* edges with that id get data.active = active.
updateStyle(ids, active, current, universe) ==
    IF active THEN current \cup (Range(ids) \cap universe)
    ELSE current \ Range(ids)

\* A variant of LockAfterRun in which the lock is never given back (used
\* to test C21).
LockNeverReleased == TRUE

\* Line 172: animationLock.current = false.
LockAfterRun == FALSE

\* Lines 153-176 from the point where the while loop of line 149 is left,
\* for the call in slot r that closed over aiReplied = replied: the lock is
\* taken; a call of a render without a reply starts the first step; a call
\* of a render with a reply lowers both flags and gives the lock back
\* before it returns.
TakeLockAndRun(r, replied, waited) ==
    IF ~replied
    THEN /\ animationLock' = TRUE
         /\ runs' = [runs EXCEPT ![r] =
                [pc |-> "on", aiReplied |-> replied, step |-> 1,
                 waited |-> waited, repliedAtLock |-> aiReplied]]
         /\ activeNodes' = updateStyle(animationSequence[1], TRUE, activeNodes, NodeIds)
         /\ activeEdges' = updateStyle(animationSequence[1], TRUE, activeEdges, EdgeIds)
         /\ UNCHANGED <<buttonClicked, aiReplied>>
    ELSE /\ animationLock' = LockAfterRun
         /\ runs' = [runs EXCEPT ![r] = IdleRun]
         /\ aiReplied' = FALSE
         /\ buttonClicked' = FALSE
         /\ UNCHANGED <<activeNodes, activeEdges>>

\* A variant of LockHeld that never sees the lock (used to test C3).
LockIgnored == FALSE

\* The condition of the while loop of line 149.
LockHeld == animationLock

\* A variant of NoTrigger without the early return (used to test C25).
NoTriggerIgnored == FALSE

\* Line 146: if (!buttonClicked && !aiReplied) return.
NoTrigger == ~buttonClicked /\ ~aiReplied

\* Lines 145-178: the effect.  With both flags down it returns at line 146.
\* Otherwise waitForAnimationAndRun starts: it polls when the lock is held.
SequencerEffect ==
    /\ effectDeps # <<buttonClicked, aiReplied>>
    /\ effectDeps' = <<buttonClicked, aiReplied>>
    /\ IF NoTrigger
       THEN UNCHANGED <<animationLock, runs, activeNodes, activeEdges, flagVars>>
       ELSE /\ FreeSlots # {}
            /\ LET r == Min(FreeSlots)
               IN IF LockHeld
                  THEN /\ runs' = [runs EXCEPT ![r] =
                              [pc |-> "poll", aiReplied |-> aiReplied, step |-> 0,
                               waited |-> TRUE, repliedAtLock |-> FALSE]]
                       /\ UNCHANGED <<animationLock, activeNodes, activeEdges, flagVars>>
                  ELSE TakeLockAndRun(r, aiReplied, FALSE)
    /\ UNCHANGED <<messages, loading, calls, appVars, restVars>>

\* The timer of delay(100) fires for a call in the while loop: line 149 is
\* evaluated again.
PollTimer(r) ==
    /\ runs[r].pc = "poll"
    /\ IF LockHeld
       THEN UNCHANGED <<animationLock, runs, activeNodes, activeEdges, flagVars>>
       ELSE TakeLockAndRun(r, runs[r].aiReplied, TRUE)
    /\ UNCHANGED <<messages, loading, calls, appVars, effectDeps, restVars>>

\* The timer of delay(DELAY_DURATION) fires for a call in a step (lines
\* 163-172): after ON comes OFF of the same step; after OFF comes ON of the
\* next step, or after the last step setButtonClicked(false) and the
\* release of the lock.
StepTimer(r) ==
    /\ runs[r].pc \in {"on", "off"}
    /\ LET step == runs[r].step
       IN IF runs[r].pc = "on"
          THEN /\ runs' = [runs EXCEPT ![r].pc = "off"]
               /\ activeNodes' = updateStyle(animationSequence[step], FALSE, activeNodes, NodeIds)
               /\ activeEdges' = updateStyle(animationSequence[step], FALSE, activeEdges, EdgeIds)
               /\ UNCHANGED <<animationLock, flagVars>>
          ELSE IF step < Len(animationSequence)
          THEN /\ runs' = [runs EXCEPT ![r].pc = "on", ![r].step = step + 1]
               /\ activeNodes' = updateStyle(animationSequence[step + 1], TRUE, activeNodes, NodeIds)
               /\ activeEdges' = updateStyle(animationSequence[step + 1], TRUE, activeEdges, EdgeIds)
               /\ UNCHANGED <<animationLock, flagVars>>
          ELSE /\ runs' = [runs EXCEPT ![r] = IdleRun]
               /\ buttonClicked' = FALSE
               /\ animationLock' = LockAfterRun
               /\ UNCHANGED <<activeNodes, activeEdges, aiReplied>>
    /\ UNCHANGED <<messages, loading, calls, appVars, effectDeps, restVars>>

\* The prompts that raise the sequencer's flags: every prompt with text
\* raises buttonClicked alike.
TriggerPrompts == {<<"a">>}

AnimNext ==
    \/ \E query \in TriggerPrompts : handleDropdownSelect(query)
    \/ AppResolve
    \/ AppReject
    \/ handleClearConversation
    \/ SequencerEffect
    \/ \E r \in RunSlots : PollTimer(r)
    \/ \E r \in RunSlots : StepTimer(r)

SpecAnim == Init /\ [][AnimNext]_vars

\* The browser runs every timer that is due and React runs every effect
\* whose dependencies changed: the timers of delay (line 126) of each call
\* and the sequencer effect are not postponed forever.
AnimFairness ==
    /\ WF_vars(SequencerEffect)
    /\ \A r \in RunSlots : WF_vars(PollTimer(r)) /\ WF_vars(StepTimer(r))

SpecAnimFair == SpecAnim /\ AnimFairness

\* React runs the effects of a render before it handles the next event or
\* timer: while the sequencer effect has a changed dependency to see (and
\* a slot for the call it starts), nothing else happens.
EffectPending ==
    /\ effectDeps # <<buttonClicked, aiReplied>>
    /\ (buttonClicked \/ aiReplied) => FreeSlots # {}

PromptSelect ==
    /\ ~EffectPending
    /\ \E query \in TriggerPrompts : handleDropdownSelect(query)

PromptResolve == ~EffectPending /\ AppResolve

PromptReject == ~EffectPending /\ AppReject

PromptClear == ~EffectPending /\ handleClearConversation

PromptPollTimer == ~EffectPending /\ \E r \in RunSlots : PollTimer(r)

PromptStepTimer == ~EffectPending /\ \E r \in RunSlots : StepTimer(r)

PromptNext ==
    \/ SequencerEffect
    \/ PromptSelect
    \/ PromptResolve
    \/ PromptReject
    \/ PromptClear
    \/ PromptPollTimer
    \/ PromptStepTimer

SpecAnimPrompt == Init /\ [][PromptNext]_vars /\ AnimFairness

(***************************************************************************)
(* The height observer on its own.                                         *)
(***************************************************************************)
\* One of the pending timeouts expires.
DebounceTimeout == \E t \in timers : TimerFires(t)

MeasureNext ==
    \/ MeasureEffect
    \/ \E h \in Heights : Resize(h)
    \/ ObserverCallback
    \/ DebounceTimeout
    \/ NewCallback
    \/ Teardown

SpecMeasure == Init /\ [][MeasureNext]_vars

(***************************************************************************)
(* The start of the application.                                           *)
(***************************************************************************)
BootNext ==
    \/ LoadEffect
    \/ PersistEffect
    \/ StrictModeReplay
    \/ ProductionBuild
    \/ RenderQueued
    \/ BootDone

SpecBoot == BootInit /\ [][BootNext]_vars

(***************************************************************************)
(* The fit of the graph on its own.                                        *)
(***************************************************************************)
FitNext ==
    \/ \E h \in WindowHeights, w \in WindowWidths : WindowResize(h, w)
    \/ \E props \in FitProps : PropsChange(props)
    \/ FitView

SpecFit == FitInit /\ [][FitNext]_vars

(***************************************************************************)
(* The sequencer inside MainArea as App renders it: the sweeps, and the    *)
(* chat panel changing its height under them.                              *)
(***************************************************************************)
\* The props App can pass (part_002:69, 138-146): chatHeight is 76 or the
\* measured height, isExpanded is measured height > 76.
MainAreaProps ==
    {props \in FitProps :
        /\ props.chatHeight > ExpandedThreshold => props.isExpanded
        /\ props.chatHeight < ExpandedThreshold => ~props.isExpanded}

GraphNext ==
    \/ AnimNext
    \/ \E props \in MainAreaProps : PropsChange(props)
    \/ FitView

SpecGraph == Init /\ [][GraphNext]_vars

(***************************************************************************)
(* Properties.                                                             *)
(***************************************************************************)
\* A prompt with nothing but whitespace in it.
AllWhitespace(prompt) == \A i \in DOMAIN prompt : prompt[i] \in Whitespace

Settled(c) == calls[c].st \in {"resolved", "rejected"}

\* Where the events called `name` stand among the events of call c.
Positions(c, name) ==
    {i \in DOMAIN calls[c].events : calls[c].events[i].ev = name}

\* The continuation of call c runs in this step.
SettlesNow(c) ==
    /\ c \in DOMAIN calls
    /\ calls[c].st = "inflight"
    /\ calls'[c].st \in {"resolved", "rejected"}

LastOf(log) == log[Len(log)]

\* C1: when a send with text settles, and no other send with text and no
\* clear ran while it was in flight, the log has exactly two entries more
\* than before the call, and its last entry holds the response of the
\* server or the fixed error text, not the placeholder.
C1_PlaceholderReplaced ==
    [][\A c \in DOMAIN calls :
          (SettlesNow(c) /\ calls'[c].alone) =>
              /\ Len(messages') = calls[c].lenBefore + 2
              /\ LastOf(messages').content \in Responses \cup {ErrorText}
              /\ LastOf(messages').content # Placeholder
              /\ LastOf(messages').content =
                    (IF calls'[c].response \in Responses
                     THEN calls'[c].response ELSE ErrorText)]_vars

\* A send that succeeded and a send that failed have both settled with no
\* other send and no clear in between.
C1_Witness ==
    \E c, d \in DOMAIN calls :
        /\ Settled(c) /\ calls[c].alone /\ calls[c].response \in Responses
        /\ Settled(d) /\ calls[d].alone /\ calls[d].response = EmptyText
        /\ Positions(d, "onError") # {}

\* C2: once a send with text has settled, whatever its outcome (response,
\* rejection, or a throw of the network layer or of onStart, onSuccess or
\* onError), and no send is in flight, the busy flag of the gateway is
\* false.
C2_LoadingResetOnEveryOutcome ==
    (calls # <<>> /\ InFlight = {}) => \A g \in Gateways : ~loading[g]

\* C3: at most one call of waitForAnimationAndRun is between its first
\* highlight toggle and its release of the lock, and the lock is held for
\* as long as one is.
C3_AnimationMutualExclusion ==
    /\ Cardinality(Sweeping) <= 1
    /\ Sweeping # {} => animationLock

\* A call that had to wait for the lock is running its steps while another
\* one is waiting.
C3_Witness ==
    \E r \in Sweeping : runs[r].waited /\ Polling # {}

\* C4: a call of waitForAnimationAndRun that took the lock while aiReplied
\* was true executes no highlight step (and has lowered aiReplied when it
\* ends), also when it was started while aiReplied was false and waited.
C4_ReplyShortCircuit ==
    \A r \in Sweeping : ~runs[r].repliedAtLock

\* C5: the continuation of every request rewrites the placeholder that the
\* request itself appended, and with no request in flight no entry of the
\* log holds the placeholder.
C5_OwnPlaceholderRewritten ==
    /\ \A c \in DOMAIN calls :
          Settled(c) => calls[c].rewrote = calls[c].lenBefore + 2
    /\ InFlight = {} =>
          \A i \in DOMAIN messages : messages[i].content # Placeholder

\* C6: in the application at most one request is in flight.
C6_OneRequestInFlight == Cardinality(InFlight) <= 1

\* C7: with no request in flight, neither a busy flag of a gateway nor
\* isAgentLoading is true.
C7_NoLoadingWhenIdle ==
    InFlight = {} => (~isAgentLoading /\ \A g \in Gateways : ~loading[g])

\* C8: a send whose prompt is empty after trimming changes neither the log
\* nor the busy flags, calls no callback and posts no request.
C8_BlankPromptNoOp ==
    [][(Len(calls') = Len(calls) + 1 /\ AllWhitespace(LastOf(calls').prompt)) =>
          /\ messages' = messages
          /\ loading' = loading
          /\ LastOf(calls').events = <<>>
          /\ LastOf(calls').st = "returned"
          /\ \A c \in DOMAIN calls : calls'[c] = calls[c]]_vars

\* A whitespace-only prompt was sent while the log was not empty.
C8_Witness ==
    \E c \in DOMAIN calls :
        /\ calls[c].prompt # EmptyText
        /\ AllWhitespace(calls[c].prompt)
        /\ calls[c].lenBefore > 0

\* C9: every send with text appends the pair, then calls onStart, then
\* posts the request, and posts exactly once, also when the request fails.
C9_SideEffectOrder ==
    \A c \in DOMAIN calls :
        ~AllWhitespace(calls[c].prompt) =>
            /\ Cardinality(Positions(c, "append")) = 1
            /\ Cardinality(Positions(c, "onStart")) = 1
            /\ Cardinality(Positions(c, "post")) = 1
            /\ \A i \in Positions(c, "append"), j \in Positions(c, "onStart"),
                  k \in Positions(c, "post") : i < j /\ j < k

\* A send with text has failed and settled.
C9_Witness ==
    \E c \in DOMAIN calls :
        /\ Settled(c)
        /\ ~AllWhitespace(calls[c].prompt)
        /\ Positions(c, "onError") # {}

\* C10: after a response the last entry of the log is rewritten to an
\* assistant message with the response text and animate true, then
\* onSuccess is called once with that text, and onError is not called.
C10_SuccessRewrite ==
    \A c \in DOMAIN calls :
        calls[c].response \in Responses =>
            /\ calls[c].rewrote >= 1
            /\ Positions(c, "onError") = {}
            /\ Cardinality(Positions(c, "onSuccess")) = 1
            /\ \E i \in Positions(c, "rewrite") :
                  /\ calls[c].events[i].text = calls[c].response
                  /\ calls[c].events[i].flag = TRUE
                  /\ calls[c].events[i + 1] = EvText("onSuccess", calls[c].response)

\* The continuation of call c runs the catch block in this step.
FailsNow(c) ==
    /\ SettlesNow(c)
    /\ \E i \in DOMAIN calls'[c].events : calls'[c].events[i].ev = "onError"

\* C11: when the request of a send fails, the last entry of the log is
\* rewritten to the assistant message with the fixed error text and animate
\* false, the length of the log stays as it was, onError is called and
\* onSuccess is not, and the promise of the send does not reject.
C11_FailureRewrite ==
    [][\A c \in DOMAIN calls :
          FailsNow(c) =>
              /\ messages # <<>>
              /\ Len(messages') = Len(messages)
              /\ LastOf(messages') = errorMessage
              /\ calls'[c].st = "resolved"
              /\ \A i \in DOMAIN calls'[c].events :
                    calls'[c].events[i].ev # "onSuccess"
              /\ Cardinality({i \in DOMAIN calls'[c].events :
                                 calls'[c].events[i].ev = "onError"}) = 1]_vars

\* A timeout of the debounce runs in this step.
UpdatesNow == burst'.updates = burst.updates + 1

\* C12: a burst of calls of debouncedHeightUpdate (each made while the
\* timeout of the one before was still pending) followed by the expiry of
\* the timeout produces exactly one update: the timeout runs once for the
\* burst, no other timeout of the burst is left, and the reported pair is
\* that of the height of the last call; until then exactly one timeout is
\* pending, with the height of the last call.
C12_DebounceCoalescing ==
    [][/\ UpdatesNow =>
             /\ burst.events >= 1
             /\ burst.updates = 0
             /\ timers' = {}
             /\ height' = burst.last
             /\ isExpanded' = nowExpanded(burst.last)
       /\ (burst'.events >= 1 /\ burst'.updates = 0 /\ measurePhase' # "torn") =>
             \E t \in timers' : timers' = {t} /\ t.newHeight = burst'.last]_vars

\* A burst of three calls ended in one update that changed the
\* reported height.
C12_Witness ==
    /\ burst.events >= 3
    /\ burst.updates = 1
    /\ burst.last = 150
    /\ height = 150
    /\ onHeightChangeCalls = 1

\* C13: when a chat log L is in storage before the application starts,
\* then once the mount effects have run and nothing is queued the log in
\* memory is L and storage holds L, in a production build and under the
\* replay of StrictMode alike.
C13_RehydrationRoundTrip ==
    \A L \in StoredLogs :
        (bootPc = "quiescent" /\ storedAtStart = stringify(L)) =>
            /\ messages = L
            /\ localStorage = stringify(L)

\* C14: the busy flag of a gateway is true in every state in which a
\* request sent through that gateway is in flight, also when another call
\* through the same gateway has settled meanwhile.
C14_LoadingWhileInFlight ==
    \A g \in Gateways : InFlightOf(g) # {} => loading[g]

\* C15: the reported pair changes, and onHeightChange is called, only in an
\* update whose height differs from the reported height or whose expanded
\* state differs from the reported one; and isExpanded is always
\* height > 76.
C15_RealChangesOnly ==
    [][/\ isExpanded = nowExpanded(height)
       /\ isExpanded' = nowExpanded(height')
       /\ (\/ <<height', isExpanded'>> # <<height, isExpanded>>
           \/ onHeightChangeCalls' # onHeightChangeCalls) =>
             /\ UpdatesNow
             /\ onHeightChangeCalls' = onHeightChangeCalls + 1
             /\ \/ burst.last # height
                \/ nowExpanded(burst.last) # isExpanded]_vars

\* The reported height went up and came back to the threshold, with one
\* call of onHeightChange each time, and a later update changed nothing.
C15_Witness ==
    /\ onHeightChangeCalls = 2
    /\ height = ExpandedThreshold
    /\ ~isExpanded
    /\ nextTimerId > 4
    /\ burst.updates = 1
    /\ timers = {}
    /\ measurePhase = "live"

\* C16: after the teardown of the height observer no timeout of the
\* debounce is pending or runs, the observer is disconnected, and neither
\* the reported pair changes nor onHeightChange is called, whether a
\* timeout was pending at the teardown or not.
C16_NothingAfterTeardown ==
    [][/\ measurePhase' = "torn" =>
             /\ timers' = {}
             /\ ~resizeObserverRef'.connected
             /\ ~resizeObserverRef'.queued
       /\ measurePhase = "torn" =>
             /\ ~UpdatesNow
             /\ measurePhase' = "torn"
             /\ UNCHANGED <<height, isExpanded, onHeightChangeCalls, timers, burst>>]_vars

\* The observer was torn down while a timeout was pending and a resize was
\* still to be reported.
C16_Witness ==
    /\ measurePhase = "torn"
    /\ burst.events >= 2
    /\ burst.updates = 0
    /\ elementHeight # burst.last
    /\ height # burst.last

\* The available area of the viewport as it stands.
AvailableH == innerHeight - fitProps.chatHeight - 40

AvailableW == innerWidth - 320

\* C17: with availableHeight = windowHeight - chatHeight - 40 and
\* availableWidth = windowWidth - 320, fitView is called with padding 0.15
\* if availableHeight < 400 or availableWidth < 600, else 0.25 if
\* availableHeight < 600 or availableWidth < 800, else 0.35; with
\* minZoom = max(0.4, availableHeight/1200) and
\* maxZoom = min(1.8, availableWidth/600) when expanded, and with
\* minZoom = 0.6 and maxZoom = 1.8 otherwise.
C17_FitComputation ==
    fitViewArgs # NoFit =>
        /\ fitViewArgs.padding =
              (IF AvailableH < 400 \/ AvailableW < 600 THEN <<15, 100>>
               ELSE IF AvailableH < 600 \/ AvailableW < 800 THEN <<25, 100>>
               ELSE <<35, 100>>)
        /\ IF fitProps.isExpanded
           THEN /\ EqFrac(fitViewArgs.minZoom,
                          IF AvailableH > 480 THEN <<AvailableH, 1200>> ELSE <<4, 10>>)
                /\ EqFrac(fitViewArgs.maxZoom,
                          IF AvailableW < 1080 THEN <<AvailableW, 600>> ELSE <<18, 10>>)
           ELSE /\ EqFrac(fitViewArgs.minZoom, <<6, 10>>)
                /\ EqFrac(fitViewArgs.maxZoom, <<18, 10>>)

\* An expanded panel in the middle tier, with both zoom bounds taken from
\* the available area.
C17_Witness ==
    /\ fitViewArgs # NoFit
    /\ fitProps.isExpanded
    /\ AvailableH = 481
    /\ AvailableW = 799
    /\ fitViewArgs.padding = <<25, 100>>
    /\ fitViewArgs.minZoom = <<481, 1200>>
    /\ fitViewArgs.maxZoom = <<799, 600>>

\* C18: the padding does not grow when the available area shrinks: an
\* input whose available height and width are both at least those of the
\* last call gets at least its padding; and a window of height 1000 with a
\* chat panel of height 450 and an available width of 600 or more gets 0.25.
C18_PaddingMonotone ==
    fitViewArgs # NoFit =>
        /\ \A h \in WindowHeights, w \in WindowWidths, props \in FitProps :
              (/\ AvailableH <= h - props.chatHeight - 40
               /\ AvailableW <= w - 320) =>
                  ~LessFrac(fitViewWithViewportLogic(h, w, props).padding,
                            fitViewArgs.padding)
        /\ (innerHeight = 1000 /\ fitProps.chatHeight = 450 /\ AvailableW >= 600) =>
              EqFrac(fitViewArgs.padding, <<25, 100>>)

\* The window of height 1000 with a chat panel of height 450.
C18_Witness ==
    /\ fitViewArgs # NoFit
    /\ innerHeight = 1000
    /\ fitProps.chatHeight = 450
    /\ AvailableH = 510
    /\ AvailableW = 1080
    /\ fitViewArgs.padding = <<25, 100>>

\* The ids a sweep has switched on and not yet off: those of the step of
\* the call that is in its ON wait.
IdsOfStep(k) == Range(animationSequence[k])
Active == activeNodes \cup activeEdges
OnRuns == {r \in RunSlots : runs[r].pc = "on"}

\* The order of the steps of the configured sweep (utils/const.ts:99).
SweepOrder == << {"1"}, {"1-2"}, {"2"} >>

\* C19: a sweep visits the steps in the configured order: {"1"}, then
\* {"1-2"}, then {"2"}.  The ON toggle of a step makes exactly its ids
\* active, the OFF toggle of the same step follows and leaves none active,
\* the next ON toggle is that of the next step, a sweep ends only after the
\* OFF toggle of the last step, and at every moment the active ids all
\* belong to the one step that is in its ON wait.
C19_SweepInOrder ==
    [][/\ \A r \in RunSlots :
            /\ (runs[r].pc # "on" /\ runs'[r].pc = "on") =>
                    /\ runs'[r].step =
                           IF runs[r].pc = "off" THEN runs[r].step + 1 ELSE 1
                    /\ runs'[r].step \in 1..Len(SweepOrder)
                    /\ activeNodes' \cup activeEdges' = SweepOrder[runs'[r].step]
            /\ (runs[r].pc = "on" /\ runs'[r].pc # "on") =>
                    /\ runs'[r].pc = "off"
                    /\ runs'[r].step = runs[r].step
                    /\ activeNodes' \cup activeEdges' = {}
            /\ (runs[r].pc = "off" /\ runs'[r].pc \notin {"on", "off"}) =>
                    runs[r].step = Len(SweepOrder)
            /\ runs'[r].pc = "on" =>
                    activeNodes' \cup activeEdges' \subseteq SweepOrder[runs'[r].step]
       /\ (\A r \in RunSlots : runs'[r].pc # "on") =>
               activeNodes' \cup activeEdges' = {}]_vars

\* A sweep is in the ON wait of its last step, with only "2" active.
C19_Witness ==
    \E r \in RunSlots :
        /\ runs[r].pc = "on"
        /\ runs[r].step = Len(SweepOrder)
        /\ activeNodes = {"2"}
        /\ activeEdges = {}

\* C20: between the ON toggle of a step and its OFF toggle every id of the
\* step stays active, whatever else happens in between.
C20_OnlySequencerToggles ==
    \A r \in OnRuns : IdsOfStep(runs[r].step) \subseteq Active

\* A call of waitForAnimationAndRun gives the lock back in this step: the
\* last step of a sweep ends, or a call that closed over a reply passes
\* the while loop of line 149.
ReleasesNow ==
    \/ \E r \in RunSlots : runs[r].pc = "off" /\ runs'[r].pc = "idle"
    \/ \E r \in RunSlots : runs[r].pc = "poll" /\ runs'[r].pc = "idle"
    \/ /\ effectDeps' # effectDeps
       /\ aiReplied
       /\ ~animationLock

\* C21: every call that takes the animation lock gives it back, and on
\* either branch (full sweep, reply short-circuit) buttonClicked is false
\* when the lock is given back.
C21_LockReleased ==
    /\ [](animationLock => <>(~animationLock))
    /\ [][ReleasesNow => (~animationLock' /\ ~buttonClicked')]_vars

\* A sweep that took the lock after the first send has given it back with
\* buttonClicked lowered: the effect last ran with the flag raised, the
\* request is still in flight, and no call holds the lock.
C21_Witness ==
    /\ Len(calls) = 1
    /\ InFlight = {1}
    /\ effectDeps = <<TRUE, FALSE>>
    /\ ~buttonClicked
    /\ ~animationLock
    /\ \A r \in RunSlots : runs[r].pc = "idle"

\* The state of the call in slot r after the timer of its step has fired.
AfterStep(r) ==
    IF runs[r].pc = "on" THEN [runs[r] EXCEPT !.pc = "off"]
    ELSE IF runs[r].step < Len(animationSequence)
    THEN [runs[r] EXCEPT !.pc = "on", !.step = runs[r].step + 1]
    ELSE IdleRun

\* A run of the sequencer effect finds a flag raised.
TriggerNow ==
    /\ effectDeps' # effectDeps
    /\ buttonClicked \/ aiReplied

\* C22: a trigger raised while the animation lock is held leaves the sweep
\* in flight alone and polls; a sweep is only ever advanced to its next
\* step and reaches the OFF wait of its last step; a polling call leaves
\* the while loop only when the lock is free; and with fair timers every
\* polling call eventually leaves the loop.
C22_TriggersWait ==
    /\ [][/\ \A r \in Sweeping : runs'[r] \in {runs[r], AfterStep(r)}
          /\ (TriggerNow /\ animationLock) =>
                /\ \E r \in RunSlots : runs[r].pc = "idle" /\ runs'[r].pc = "poll"
                /\ \A r \in Sweeping : runs'[r] = runs[r]
                /\ UNCHANGED <<animationLock, activeNodes, activeEdges>>
          /\ \A r \in Polling : runs'[r].pc # "poll" => ~animationLock]_vars
    /\ \A r \in RunSlots :
          /\ [](runs[r].pc \in {"on", "off"} =>
                  <>(runs[r].pc = "off" /\ runs[r].step = Len(animationSequence)))
          /\ [](runs[r].pc = "poll" => <>(runs[r].pc # "poll"))

\* A call that had to poll has taken the lock and is in its first step.
C22_Witness ==
    \E r \in RunSlots :
        /\ runs[r].waited
        /\ runs[r].pc = "on"
        /\ animationLock

\* A sweep is in the ON wait of its first step.
SweepBegins == \E r \in RunSlots : runs[r].pc = "on" /\ runs[r].step = 1

\* C23: every accepted send is followed by a full sweep that begins at or
\* after the send: once the k-th send has started there comes a state in
\* which no sweep is in its first step, and after it a state in which one
\* is.
C23_EverySendSwept ==
    \A k \in 1..MaxCalls :
        \/ [](Len(calls) < k)
        \/ <>(Len(calls) >= k /\ ~SweepBegins /\ <>SweepBegins)

\* What the request of a settled call came back with: the response text,
\* or the fixed error text.
Outcome(call) ==
    IF \E i \in DOMAIN call.events : call.events[i].ev = "onError" THEN ErrorText ELSE call.response

C25_NoTriggerNoOp ==
    [][(effectDeps' # effectDeps /\ ~buttonClicked /\ ~aiReplied) =>
          UNCHANGED <<animationLock, runs, activeNodes, activeEdges,
                      buttonClicked, aiReplied>>]_vars

\* The sweep of the first send has ended and lowered buttonClicked, and the
\* effect has run again with both flags down.
C25_Witness ==
    /\ Len(calls) = 1
    /\ InFlight = {1}
    /\ effectDeps = <<FALSE, FALSE>>
    /\ ~buttonClicked
    /\ ~aiReplied
    /\ ~animationLock
    /\ \A r \in RunSlots : runs[r].pc = "idle"

\* C26: the log is append-only with tail-replace.  A step that does not
\* shorten the log leaves every entry but the last as it was; a step that
\* shortens the log is the clear of the conversation, which is offered only
\* when an answer is shown, and it removes every entry.
C26_AppendOnlyTailReplace ==
    [][/\ Len(messages') >= Len(messages) =>
              \A i \in 1..(Len(messages) - 1) : messages'[i] = messages[i]
       /\ Len(messages') < Len(messages) =>
              /\ showActions
              /\ messages' = <<>>
              /\ currentUserMessage' = EmptyText
              /\ agentResponse' = EmptyText]_vars

\* Two sends one after the other: the answer of the first is still in the
\* second entry after the pair of the second was appended and its
\* placeholder replaced by the error text.
C26_Witness ==
    /\ Len(messages) = 4
    /\ messages[2].content \in Responses
    /\ messages[4] = errorMessage
    /\ InFlight = {}

\* C27: from an empty log on, the log has an even number of entries and
\* its roles alternate: the first, third, ... entry is a user message,
\* the second, fourth, ... an assistant message.
C27_RolesAlternate ==
    /\ Len(messages) % 2 = 0
    /\ \A i \in DOMAIN messages :
          messages[i].role = (IF i % 2 = 1 THEN "user" ELSE "assistant")

\* Two sends overlap and the second has failed while the first is still in
\* flight: four entries, the last one the error message.
C27_Witness ==
    /\ Len(messages) = 4
    /\ InFlight = {1}
    /\ messages[4] = errorMessage
    /\ messages[2] = loadingMessage

\* C28: while the animation lock is free no node and no edge is active.
C28_NoHighlightWithoutLock ==
    ~animationLock => (activeNodes = {} /\ activeEdges = {})

\* A sweep has gone through its steps and given the lock back while the
\* effect raised by the reply is waiting: nothing is active.
C28_Witness ==
    /\ ~animationLock
    /\ activeNodes = {}
    /\ activeEdges = {}
    /\ \E r \in RunSlots : runs[r].pc = "poll"

\* C29: the zoom bounds fitView is called with are a range with something
\* in it: minZoom <= maxZoom, and maxZoom > 0.
C29_ZoomRangeNonEmpty ==
    fitViewArgs # NoFit =>
        /\ ~LessFrac(fitViewArgs.maxZoom, fitViewArgs.minZoom)
        /\ LessFrac(Frac(0, 1), fitViewArgs.maxZoom)

\* The panel shows a prompt and an answer under it (ChatArea.tsx:139-142,
\* 177-195): there is a current user message and an answer and the panel
\* is not loading.
ShowsAnswer == Truthy(currentUserMessage) /\ Truthy(agentResponse) /\ ~isAgentLoading

\* C30: whenever the panel shows an answer, the answer is the outcome of a
\* request that was made for the prompt displayed with it.
C30_AnswerOfDisplayedPrompt ==
    ShowsAnswer =>
        \E c \in DOMAIN calls :
            /\ Settled(c)
            /\ calls[c].prompt = currentUserMessage
            /\ agentResponse = Outcome(calls[c])
=============================================================================
